---- MODULE Spec2Model ----
(***************************************************************************)
(* Model of packages/min/src/mixin.ts: the merge of an ordered list of     *)
(* mixins into a page configuration, and the invocation of the merged      *)
(* properties by the host framework.                                       *)
(*                                                                         *)
(* JavaScript values are records [kind, owner, slot, name].  An object is  *)
(* a function from its own keys to values; a key that is not in the        *)
(* DOMAIN reads as undefined.  A function value is identified by where it  *)
(* was written: owner 0 is the page, owner i >= 1 the i-th mixin.          *)
(*                                                                         *)
(* The host calls a property with the page configuration or with a page    *)
(* instance as receiver; either way the receiver holds the properties of   *)
(* the merged configuration.  The state keeps the last call: the handler   *)
(* calls it made in order, with their arguments and receiver, and what it  *)
(* returned.  Calls are not counted, so every number of invocations is     *)
(* covered.                                                                *)
(***************************************************************************)
EXTENDS Naturals, Sequences, FiniteSets

VARIABLES
  mixins,     \* the page's mixin list: Seq of [data?, methods?, top]
  rawConf,    \* the page configuration as passed in: [data?, props]
  pageConf,   \* the page configuration object, mutated in place
  merged,     \* TRUE once the default export has returned
  lists,      \* the methodsList array each lifecycle dispatcher closes over
  lastCall,   \* the last invocation the host made: [name, this, args]
  log,        \* the handler calls of the last invocation, in order
  result,     \* [ret, err] of the last invocation
  funcs,      \* the functions handed to compose, when compose is called alone
  pages,      \* two pages merged with the same mixins: [raw, conf, merged, refs]
  heap        \* the arrays the dispatchers of the two pages close over, by reference

vars ==
  <<mixins, rawConf, pageConf, merged, lists, lastCall, log, result, funcs, pages, heap>>

\* Bounds of the model.
MaxMixins == 2
MaxFuncs == 3

----------------------------------------------------------------------------
\* Values

Prim(kind) == [kind |-> kind, owner |-> 0, slot |-> "", name |-> ""]
Undef == Prim("undefined")
Null == Prim("null")
Zero == Prim("zero")
False == Prim("false")
NonFn == Prim("string")
\* A value of mixin i that is not a function.
MixinNonFn(i) == [kind |-> "string", owner |-> i, slot |-> "mixin", name |-> ""]

Fn(owner, slot, name) ==
  [kind |-> "function", owner |-> owner, slot |-> slot, name |-> name]
Num(owner, name) ==
  [kind |-> "number", owner |-> owner, slot |-> "data", name |-> name]

\* const noop = function () {}
noop == Fn(0, "noop", "noop")
\* const onLoad = new OnLoad().onLoad
onLoad == Fn(0, "OnLoad", "onLoad")
\* the closure mixMethods installs under a lifecycle name
DispatcherFn(key) == Fn(0, "dispatcher", key)

\* A function the user wrote whose body throws.
Thrower(owner, slot, name) ==
  [kind |-> "throwing function", owner |-> owner, slot |-> slot, name |-> name]
Throws(f) == f.kind = "throwing function"
\* The value a throwing function throws: a value of its own.
Thrown(f) == [kind |-> "error", owner |-> f.owner, slot |-> f.slot, name |-> f.name]

isFunction(v) == v.kind \in {"function", "throwing function"}
Truthy(v) == v.kind \notin {"undefined", "null", "zero", "false"}

\* What a handler written by the user returns: a value of its own.
Returns(f) ==
  IF f = noop THEN Undef
  ELSE [kind |-> "return", owner |-> f.owner, slot |-> f.slot, name |-> f.name]

PAGE_EVENT ==
  <<"onLoad", "onReady", "onShow", "onHide", "onUnload", "onPullDownRefresh",
    "onReachBottom", "onShareAppMessage">>

Includes(s, x) == \E i \in 1..Len(s) : s[i] = x

----------------------------------------------------------------------------
\* Objects

EmptyObj == [k \in {} |-> Undef]
Get(obj, k) == IF k \in DOMAIN obj THEN obj[k] ELSE Undef
Put(obj, k, v) == [x \in (DOMAIN obj) \cup {k} |-> IF x = k THEN v ELSE obj[x]]

RECURSIVE Reverse(_)
Reverse(s) == IF s = <<>> THEN <<>> ELSE Append(Reverse(Tail(s)), Head(s))

----------------------------------------------------------------------------
\* Calls.  The outcome of a call: the handler calls it made in order, the
\* value it returned, and "TypeError" when it called a value that is not a
\* function, or "Error" with the thrown value in ret when a handler threw
\* (the calls after the fault are not made).

Outcome(l, r, e) == [log |-> l, ret |-> r, err |-> e]
CallRec(f, this, args) == [fn |-> f, this |-> this, args |-> args]

\* A call of a handler the user wrote (or of noop).
ApplyLeaf(f, this, args) ==
  IF Throws(f)
  THEN Outcome(<<CallRec(f, this, args)>>, Thrown(f), "Error")
  ELSE IF isFunction(f)
  THEN Outcome(<<CallRec(f, this, args)>>, Returns(f), "none")
  ELSE Outcome(<<>>, Undef, "TypeError")

\* A call as a statement: the value it returns is dropped, what it throws is
\* not.
Statement(o) == IF o.err = "none" THEN [o EXCEPT !.ret = Undef] ELSE o

\* One statement "this.<hook>(opts)" after the statements before it.
HookStep(before, hook, this, conf, opts) ==
  IF before.err # "none" THEN before
  ELSE LET o == Statement(ApplyLeaf(Get(conf, hook), this, <<opts>>))
       IN Outcome(before.log \o o.log, o.ret, o.err)

\* Mutation of OnLoadMethod: the after-load hook runs before the page's onLoad.
OnLoadMethodAfterFirst(this, conf, args) ==
  LET opts == IF Len(args) >= 1 THEN args[1] ELSE Undef
      s0 == Outcome(<<>>, Undef, "none")
      s1 == HookStep(s0, "onBeforeLoad", this, conf, opts)
      s2 == HookStep(s1, "onAfterLoad", this, conf, opts)
      s3 == HookStep(s2, "onNativeLoad", this, conf, opts)
  IN s3

\* class OnLoad { onLoad (opts) { ... } }: `this` is the receiver of the call,
\* conf the properties the receiver holds.
OnLoadMethod(this, conf, args) ==
  LET opts == IF Len(args) >= 1 THEN args[1] ELSE Undef
      s0 == Outcome(<<>>, Undef, "none")
      s1 == HookStep(s0, "onBeforeLoad", this, conf, opts)
      s2 == HookStep(s1, "onNativeLoad", this, conf, opts)
      s3 == HookStep(s2, "onAfterLoad", this, conf, opts)
  IN s3

\* Mutation of Bind: the function is bound to the page configuration object.
BindToConfig(f, this) == [fn |-> f, this |-> "pageConf"]

\* f.bind(this)
Bind(f, this) == [fn |-> f, this |-> this]

\* A call of a bound function with args.
ApplyBound(b, conf, args) ==
  IF b.fn = onLoad THEN OnLoadMethod(b.this, conf, args)
  ELSE ApplyLeaf(b.fn, b.this, args)

\* rest.reduceRight((composed, f) => f(composed), acc): rest[i] down to rest[1].
RECURSIVE ReduceRight(_, _, _, _)
ReduceRight(rest, i, conf, acc) ==
  IF i = 0 \/ acc.err # "none" THEN acc
  ELSE LET o == ApplyBound(rest[i], conf, <<acc.ret>>)
       IN ReduceRight(rest, i - 1, conf, Outcome(acc.log \o o.log, o.ret, o.err))

\* Mutation of compose: the last function receives only the first argument.
composeFirstArgOnly(fs, conf, args) ==
  IF Len(fs) = 0
  THEN Outcome(<<>>, IF Len(args) >= 1 THEN args[1] ELSE Undef, "none")
  ELSE IF Len(fs) = 1
  THEN ApplyBound(fs[1], conf, args)
  ELSE LET last == fs[Len(fs)]
           rest == SubSeq(fs, 1, Len(fs) - 1)
       IN ReduceRight(rest, Len(rest), conf, ApplyBound(last, conf, SubSeq(args, 1, 1)))

\* Mutation of compose: the first function runs first, with the arguments.
composeLeftFirst(fs, conf, args) ==
  IF Len(fs) = 0
  THEN Outcome(<<>>, IF Len(args) >= 1 THEN args[1] ELSE Undef, "none")
  ELSE IF Len(fs) = 1
  THEN ApplyBound(fs[1], conf, args)
  ELSE LET rest == Reverse(Tail(fs))
       IN ReduceRight(rest, Len(rest), conf, ApplyBound(Head(fs), conf, args))

\* compose(...funcs)(...args)
compose(fs, conf, args) ==
  IF Len(fs) = 0
  THEN Outcome(<<>>, IF Len(args) >= 1 THEN args[1] ELSE Undef, "none")
  ELSE IF Len(fs) = 1
  THEN ApplyBound(fs[1], conf, args)
  ELSE LET last == fs[Len(fs)]
           rest == SubSeq(fs, 1, Len(fs) - 1)
       IN ReduceRight(rest, Len(rest), conf, ApplyBound(last, conf, args))

\* Mutation of Dispatcher: the closed-over array loses its first element on
\* every call.
DispatcherShifting(methodsList, this, conf, args) ==
  LET reversed == Reverse(methodsList)
      bound == [i \in 1..Len(reversed) |-> Bind(reversed[i], this)]
  IN [methodsList |-> IF reversed = <<>> THEN reversed ELSE Tail(reversed),
      out |-> Statement(compose(bound, conf, args))]

\* The closure of mixMethods: function (...args) { compose(...methodsList
\* .reverse().map(f => f.bind(this)))(...args) }.  Array.prototype.reverse
\* reverses methodsList in place; the closure has no return statement.
Dispatcher(methodsList, this, conf, args) ==
  LET reversed == Reverse(methodsList)
      bound == [i \in 1..Len(reversed) |-> Bind(reversed[i], this)]
  IN [methodsList |-> reversed, out |-> Statement(compose(bound, conf, args))]

----------------------------------------------------------------------------
\* The collectors

DataOf(mixin) == IF "data" \in DOMAIN mixin THEN mixin.data ELSE EmptyObj
MethodsOf(mixin) == IF "methods" \in DOMAIN mixin THEN mixin.methods ELSE EmptyObj

\* Object.keys(data).forEach(key => { ret[key] = data[key] })
AssignAll(ret, data) ==
  [k \in (DOMAIN ret) \cup (DOMAIN data) |->
     IF k \in DOMAIN data THEN data[k] ELSE ret[k]]

RECURSIVE getMixinData(_)
getMixinData(ms) ==
  IF ms = <<>> THEN EmptyObj
  ELSE AssignAll(getMixinData(SubSeq(ms, 1, Len(ms) - 1)), DataOf(ms[Len(ms)]))

\* An entry of the accumulator of getMixinMethods: a function, or an array.
One(f) == [isArray |-> FALSE, fn |-> f, list |-> <<>>]
Arr(l) == [isArray |-> TRUE, fn |-> Undef, list |-> l]

\* Mutation of MethodKeys: an entry that is not a function is recorded too.
MethodKeysAnyValue(methods) ==
  {k \in DOMAIN methods : k # "onLoad"}

\* "Get methods": the keys of mixin.methods recorded into ret.
MethodKeys(methods) ==
  {k \in DOMAIN methods : isFunction(methods[k]) /\ k # "onLoad"}

\* Mutation of CollectMethods: a key already recorded is not overwritten.
CollectMethodsKeepFirst(ret, methods) ==
  [k \in (DOMAIN ret) \cup MethodKeys(methods) |->
     IF k \in DOMAIN ret THEN ret[k] ELSE One(methods[k])]

CollectMethods(ret, methods) ==
  [k \in (DOMAIN ret) \cup MethodKeys(methods) |->
     IF k \in MethodKeys(methods) THEN One(methods[k]) ELSE ret[k]]

\* Mutation of LifecycleKeys: onLoad is collected like the other names.
LifecycleKeysWithOnLoad(top) ==
  {k \in DOMAIN top : Includes(PAGE_EVENT, k) /\ isFunction(top[k])}

\* "Get lifecycle": the PAGE_EVENT names of the mixin recorded into ret.
LifecycleKeys(top) ==
  {k \in DOMAIN top : Includes(PAGE_EVENT, k) /\ isFunction(top[k]) /\ k # "onLoad"}

CollectLifecycle(ret, top) ==
  [k \in (DOMAIN ret) \cup LifecycleKeys(top) |->
     IF k \in LifecycleKeys(top)
     THEN IF k \in DOMAIN ret /\ ret[k].isArray
          THEN Arr(Append(ret[k].list, top[k]))
          ELSE Arr(<<top[k]>>)
     ELSE ret[k]]

\* Mutation of getMixinMethods: the mixins are walked from the last to the first.
RECURSIVE getMixinMethodsBackwards(_)
getMixinMethodsBackwards(ms) ==
  IF ms = <<>> THEN EmptyObj
  ELSE LET mixin == Head(ms)
           ret == getMixinMethodsBackwards(Tail(ms))
       IN CollectLifecycle(CollectMethods(ret, MethodsOf(mixin)), mixin.top)

RECURSIVE getMixinMethods(_)
getMixinMethods(ms) ==
  IF ms = <<>> THEN EmptyObj
  ELSE LET mixin == ms[Len(ms)]
           ret == getMixinMethods(SubSeq(ms, 1, Len(ms) - 1))
       IN CollectLifecycle(CollectMethods(ret, MethodsOf(mixin)), mixin.top)

----------------------------------------------------------------------------
\* The mergers

\* Mutation of mixData: a falsy native value does not count as defined.
mixDataTruthy(mixinData, nativeData) ==
  [k \in (DOMAIN nativeData) \cup (DOMAIN mixinData) |->
     IF Truthy(Get(nativeData, k)) THEN nativeData[k]
     ELSE IF k \in DOMAIN mixinData THEN mixinData[k] ELSE nativeData[k]]

mixData(mixinData, nativeData) ==
  [k \in (DOMAIN nativeData) \cup (DOMAIN mixinData) |->
     IF Get(nativeData, k) # Undef THEN nativeData[k]
     ELSE IF k \in DOMAIN mixinData THEN mixinData[k] ELSE nativeData[k]]

\* The keys of mixinMethods for which mixMethods installs a dispatcher.
DispatchKeys(mixinMethods) ==
  {k \in DOMAIN mixinMethods : Includes(PAGE_EVENT, k) /\ mixinMethods[k].isArray}

\* Mutation of CommonKeys: a mixin method overwrites the page's own.
CommonKeysOverwrite(mixinMethods, props) ==
  {k \in DOMAIN mixinMethods : ~Includes(PAGE_EVENT, k)}

\* The keys of mixinMethods mixMethods installs as common methods.
CommonKeys(mixinMethods, props) ==
  {k \in DOMAIN mixinMethods :
     ~Includes(PAGE_EVENT, k) /\ Get(props, k) \in {Undef, Null}}

\* methodsList after "if (isFunction(pageConf[key])) methodsList.push(pageConf[key])"
MethodsList(list, own) == IF isFunction(own) THEN Append(list, own) ELSE list

\* An accumulator entry as the value of a property: ret[key] holds a function
\* for every key outside PAGE_EVENT.
EntryValue(e) == IF e.isArray THEN NonFn ELSE e.fn

\* mixMethods: the properties of pageConf after it, and the arrays the
\* dispatchers close over.
mixMethods(mixinMethods, props) ==
  [props |->
     [k \in (DOMAIN props) \cup DispatchKeys(mixinMethods)
              \cup CommonKeys(mixinMethods, props) |->
        IF k \in DispatchKeys(mixinMethods) THEN DispatcherFn(k)
        ELSE IF k \in CommonKeys(mixinMethods, props)
        THEN EntryValue(mixinMethods[k])
        ELSE props[k]],
   lists |->
     [k \in DispatchKeys(mixinMethods) |->
        MethodsList(mixinMethods[k].list, Get(props, k))]]

\* Object.assign(pageConf, {data, onLoad, onBeforeLoad, onAfterLoad, onNativeLoad})
\* with the defaults of the destructuring: the properties before mixMethods.
Assigned(conf) ==
  LET onBeforeLoad == IF Get(conf.props, "onBeforeLoad") = Undef THEN noop
                      ELSE conf.props["onBeforeLoad"]
      onAfterLoad == IF Get(conf.props, "onAfterLoad") = Undef THEN noop
                     ELSE conf.props["onAfterLoad"]
      onNativeLoad == IF Truthy(Get(conf.props, "onLoad")) THEN conf.props["onLoad"]
                      ELSE noop
  IN Put(Put(Put(Put(conf.props, "onLoad", onLoad), "onBeforeLoad", onBeforeLoad),
             "onAfterLoad", onAfterLoad), "onNativeLoad", onNativeLoad)

NativeData(conf) == IF "data" \in DOMAIN conf THEN conf.data ELSE EmptyObj

\* Mutation of MergeResult: the data of the mixins is accumulated into the
\* first mixin's data object instead of a new object.
MergeResultIntoFirstMixin(conf, ms) ==
  LET mixinData == getMixinData(ms)
      mixinMethods == getMixinMethods(ms)
      mm == mixMethods(mixinMethods, Assigned(conf))
  IN [conf |-> [data |-> mixData(mixinData, NativeData(conf)), props |-> mm.props],
      lists |-> mm.lists,
      mixins |-> IF ms = <<>> THEN ms
                 ELSE [ms EXCEPT ![1] = Put(ms[1], "data", mixinData)]]

\* export default (pageConf) => { ... }: the page configuration, the arrays of
\* its dispatchers and the mixin list after the call.  The collectors write
\* into objects and arrays of their own (let ret = {}, [method], [...value,
\* method]), mixData and mixMethods into the page's: the mixins are only read.
MergeResult(conf, ms) ==
  LET mixinData == getMixinData(ms)
      mixinMethods == getMixinMethods(ms)
      mm == mixMethods(mixinMethods, Assigned(conf))
  IN [conf |-> [data |-> mixData(mixinData, NativeData(conf)), props |-> mm.props],
      lists |-> mm.lists,
      mixins |-> ms]

----------------------------------------------------------------------------
\* Inputs: the mixin lists and raw page configurations the model draws from,
\* in five groups (lifecycle fan-out, load sequence, common methods, data,
\* handlers that throw).

\* The objects that hold, for each key k of a subset of DOMAIN vals, one of
\* the values vals[k].
Objs(vals) ==
  UNION {{o \in [S -> UNION {vals[k] : k \in S}] : \A k \in S : o[k] \in vals[k]} :
         S \in SUBSET DOMAIN vals}

\* A mixin with the given top-level properties, methods and data; an empty
\* methods or data mapping stands for a mixin that has none.
MakeMixin(top, methods, data) ==
  [f \in {"top"} \cup (IF methods = EmptyObj THEN {} ELSE {"methods"})
                 \cup (IF data = EmptyObj THEN {} ELSE {"data"}) |->
     IF f = "top" THEN top ELSE IF f = "methods" THEN methods ELSE data]

MakeConf(props, data) ==
  [f \in {"props"} \cup (IF data = EmptyObj THEN {} ELSE {"data"}) |->
     IF f = "props" THEN props ELSE data]

\* Lifecycle fan-out: onShow as a top-level property and as a methods entry.
LifeMixins(i) ==
  {MakeMixin(t, m, EmptyObj) :
     t \in Objs([k \in {"onShow"} |-> {Fn(i, "top", k), MixinNonFn(i)}]),
     m \in Objs([k \in {"onShow"} |-> {Fn(i, "methods", k)}])}
LifeConfs ==
  {MakeConf(p, EmptyObj) : p \in Objs([k \in {"onShow"} |-> {Fn(0, "page", k), NonFn}])}

\* The load sequence: onLoad, onBeforeLoad and onAfterLoad of mixins and page.
LoadMixins(i) ==
  {MakeMixin(EmptyObj, EmptyObj, EmptyObj),
   MakeMixin([k \in {"onLoad"} |-> Fn(i, "top", k)], EmptyObj, EmptyObj),
   MakeMixin([k \in {"onLoad", "onBeforeLoad"} |-> Fn(i, "top", k)], EmptyObj, EmptyObj),
   MakeMixin(EmptyObj, [k \in {"onLoad"} |-> Fn(i, "methods", k)], EmptyObj),
   MakeMixin(EmptyObj, [k \in {"onBeforeLoad", "onAfterLoad"} |-> Fn(i, "methods", k)],
             EmptyObj)}
LoadConfs ==
  {MakeConf(p, EmptyObj) :
     p \in Objs([k \in {"onLoad", "onBeforeLoad", "onAfterLoad"} |->
                   IF k = "onBeforeLoad" THEN {Fn(0, "page", k), Null}
                   ELSE {Fn(0, "page", k)}])}

\* Common methods: foo and bar in the methods mappings, foo on the page.
CommonMixins(i) ==
  {MakeMixin(EmptyObj, m, EmptyObj) :
     m \in Objs([k \in {"foo", "bar"} |->
                   IF k = "foo" THEN {Fn(i, "methods", k), MixinNonFn(i)}
                   ELSE {Fn(i, "methods", k)}])}
CommonConfs ==
  {MakeConf(p, EmptyObj) :
     p \in Objs([k \in {"foo"} |-> {Fn(0, "page", k), Null, Zero}])}

\* Data: keys a and b.
DataMixins(i) ==
  {MakeMixin(EmptyObj, EmptyObj, d) :
     d \in Objs([k \in {"a", "b"} |->
                   IF k = "a" THEN {Num(i, k), Undef} ELSE {Num(i, k)}])}
DataConfs ==
  {MakeConf(EmptyObj, d) :
     d \in Objs([k \in {"a", "b"} |->
                   IF k = "a" THEN {Num(0, k), Undef, Null, Zero, False}
                   ELSE {Num(0, k)}])}

\* Handlers that throw: onShow of the mixins and of the page returns or throws.
RaiseMixins(i) ==
  {MakeMixin(t, EmptyObj, EmptyObj) :
     t \in Objs([k \in {"onShow"} |-> {Fn(i, "top", k), Thrower(i, "top", k)}])}
RaiseConfs ==
  {MakeConf(p, EmptyObj) :
     p \in Objs([k \in {"onShow"} |-> {Fn(0, "page", k), Thrower(0, "page", k)}])}

\* The mixin lists of at most MaxMixins mixins, the i-th drawn from M[i].
MixinLists(M) ==
  UNION {{ms \in [1..n -> UNION {M[i] : i \in 1..n}] : \A i \in 1..n : ms[i] \in M[i]} :
         n \in 0..MaxMixins}

Receivers == {"pageConf", "instance"}
ArgVal(n) == [kind |-> "arg", owner |-> 0, slot |-> "", name |-> n]
ArgLists == {<<ArgVal("x")>>, <<ArgVal("x"), ArgVal("y")>>}

NoCall == [name |-> "", this |-> "", args |-> <<>>]

----------------------------------------------------------------------------
\* The state machine

Start(ms, conf) ==
  /\ mixins = ms
  /\ rawConf = conf
  /\ pageConf = conf
  /\ merged = FALSE
  /\ lists = EmptyObj
  /\ lastCall = NoCall
  /\ log = <<>>
  /\ result = [ret |-> Undef, err |-> "none"]
  /\ funcs = <<>>
  /\ pages = <<>>
  /\ heap = <<>>

Init ==
  \/ \E ms \in MixinLists([i \in 1..MaxMixins |-> LifeMixins(i)]), conf \in LifeConfs :
       Start(ms, conf)
  \/ \E ms \in MixinLists([i \in 1..MaxMixins |-> LoadMixins(i)]), conf \in LoadConfs :
       Start(ms, conf)
  \/ \E ms \in MixinLists([i \in 1..MaxMixins |-> CommonMixins(i)]), conf \in CommonConfs :
       Start(ms, conf)
  \/ \E ms \in MixinLists([i \in 1..MaxMixins |-> DataMixins(i)]), conf \in DataConfs :
       Start(ms, conf)
  \/ \E ms \in MixinLists([i \in 1..MaxMixins |-> RaiseMixins(i)]), conf \in RaiseConfs :
       Start(ms, conf)

\* The default export: the page configuration is merged once.
Merge ==
  /\ ~merged
  /\ LET r == MergeResult(pageConf, mixins)
     IN /\ pageConf' = r.conf
        /\ lists' = r.lists
        /\ mixins' = r.mixins
  /\ merged' = TRUE
  /\ UNCHANGED <<rawConf, lastCall, log, result, funcs, pages, heap>>

\* What a call of the property `name` with receiver `this` does.
CallProperty(name, this, args) ==
  LET f == Get(pageConf.props, name)
  IN IF f.slot = "dispatcher"
     THEN LET d == Dispatcher(lists[f.name], this, pageConf.props, args)
          IN [lists |-> [lists EXCEPT ![f.name] = d.methodsList], out |-> d.out]
     ELSE [lists |-> lists, out |-> ApplyBound(Bind(f, this), pageConf.props, args)]

Invoke(name, this, args) ==
  /\ merged
  /\ isFunction(Get(pageConf.props, name))
  /\ LET c == CallProperty(name, this, args)
     IN /\ lists' = c.lists
        /\ log' = c.out.log
        /\ result' = [ret |-> c.out.ret, err |-> c.out.err]
  /\ lastCall' = [name |-> name, this |-> this, args |-> args]
  /\ UNCHANGED <<mixins, rawConf, pageConf, merged, funcs, pages, heap>>

\* The host invokes the page's onLoad.
InvokeOnLoad ==
  \E this \in Receivers, args \in ArgLists : Invoke("onLoad", this, args)

\* The host invokes another lifecycle property of the page.
InvokeLifecycle ==
  \E name \in DOMAIN pageConf.props, this \in Receivers, args \in ArgLists :
    /\ Includes(PAGE_EVENT, name)
    /\ name # "onLoad"
    /\ Invoke(name, this, args)

\* Page code invokes a method of the page.
InvokeMethod ==
  \E name \in DOMAIN pageConf.props, this \in Receivers, args \in ArgLists :
    /\ ~Includes(PAGE_EVENT, name)
    /\ Invoke(name, this, args)

Next == Merge \/ InvokeOnLoad \/ InvokeLifecycle \/ InvokeMethod

Spec == Init /\ [][Next]_vars

----------------------------------------------------------------------------
\* compose called alone, on every list of at most MaxFuncs functions.

ComposeArgLists == {<<>>, <<ArgVal("x")>>, <<ArgVal("x"), ArgVal("y")>>}

\* The lists of at most MaxFuncs functions; the i-th is one of two functions
\* of its own or noop.
FuncLists ==
  UNION {[1..n -> {Fn(0, "funcs", "f"), Fn(0, "funcs", "g"), noop}] : n \in 0..MaxFuncs}

InitCompose ==
  /\ funcs \in FuncLists
  /\ mixins = <<>>
  /\ rawConf = MakeConf(EmptyObj, EmptyObj)
  /\ pageConf = MakeConf(EmptyObj, EmptyObj)
  /\ merged = FALSE
  /\ lists = EmptyObj
  /\ lastCall = NoCall
  /\ log = <<>>
  /\ result = [ret |-> Undef, err |-> "none"]
  /\ pages = <<>>
  /\ heap = <<>>

\* compose(...funcs)(...args), the functions bound to a receiver.
ComposeCall ==
  \E this \in Receivers, args \in ComposeArgLists :
    LET o == compose([i \in 1..Len(funcs) |-> Bind(funcs[i], this)], EmptyObj, args)
    IN /\ log' = o.log
       /\ result' = [ret |-> o.ret, err |-> o.err]
       /\ lastCall' = [name |-> "compose", this |-> this, args |-> args]
       /\ UNCHANGED <<mixins, rawConf, pageConf, merged, lists, funcs, pages, heap>>

NextCompose == ComposeCall

SpecCompose == InitCompose /\ [][NextCompose]_vars

----------------------------------------------------------------------------
\* Two page configurations A and B merged with the same mixin objects.  The
\* arrays the dispatchers close over are held by reference in heap.

PageIds == {"A", "B"}

\* The own onShow of page p.
PageHandler(p) == Fn(0, IF p = "A" THEN "pageA" ELSE "pageB", "onShow")

PagesMixins(i) ==
  {MakeMixin(t, EmptyObj, EmptyObj) : t \in Objs([k \in {"onShow"} |-> {Fn(i, "top", k)}])}
PagesConfs(p) ==
  {MakeConf(t, EmptyObj) : t \in Objs([k \in {"onShow"} |-> {PageHandler(p)}])}

\* Mutation of Alloc: the array of a lifecycle name is one array for all pages.
AllocShared(p, key) == <<"shared", key>>

\* The array literals [method] and [...value, method] of getMixinMethods:
\* every call of getMixinMethods, one per merged page, creates arrays of its
\* own.
Alloc(p, key) == <<p, key>>

InitPages ==
  /\ mixins \in MixinLists([i \in 1..MaxMixins |-> PagesMixins(i)])
  /\ pages \in {pg \in [PageIds -> [raw : UNION {PagesConfs(p) : p \in PageIds},
                                      conf : UNION {PagesConfs(p) : p \in PageIds},
                                      merged : {FALSE},
                                      refs : {EmptyObj}]] :
                  \A p \in PageIds : pg[p].raw \in PagesConfs(p) /\ pg[p].conf = pg[p].raw}
  /\ heap = <<>>
  /\ rawConf = MakeConf(EmptyObj, EmptyObj)
  /\ pageConf = MakeConf(EmptyObj, EmptyObj)
  /\ merged = FALSE
  /\ lists = EmptyObj
  /\ lastCall = NoCall
  /\ log = <<>>
  /\ result = [ret |-> Undef, err |-> "none"]
  /\ funcs = <<>>

\* The default export applied to page p.
MergePage(p) ==
  /\ ~pages[p].merged
  /\ LET r == MergeResult(pages[p].conf, mixins)
         new == {Alloc(p, key) : key \in DOMAIN r.lists}
     IN /\ pages' = [pages EXCEPT ![p] =
                       [raw |-> @.raw, conf |-> r.conf, merged |-> TRUE,
                        refs |-> [key \in DOMAIN r.lists |-> Alloc(p, key)]]]
        /\ heap' = [ref \in (DOMAIN heap) \cup new |->
                      IF ref \in new THEN r.lists[ref[2]] ELSE heap[ref]]
        /\ mixins' = r.mixins
  /\ UNCHANGED <<rawConf, pageConf, merged, lists, lastCall, log, result, funcs>>

\* The host invokes the lifecycle property `name` of page p on the page's
\* instance.
InvokePage(p) ==
  \E name \in DOMAIN pages[p].conf.props, args \in ArgLists :
    /\ pages[p].merged
    /\ Includes(PAGE_EVENT, name)
    /\ name # "onLoad"
    /\ LET f == pages[p].conf.props[name]
       IN /\ isFunction(f)
          /\ IF f.slot = "dispatcher"
             THEN LET ref == pages[p].refs[f.name]
                      d == Dispatcher(heap[ref], p, pages[p].conf.props, args)
                  IN /\ heap' = [heap EXCEPT ![ref] = d.methodsList]
                     /\ log' = d.out.log
                     /\ result' = [ret |-> d.out.ret, err |-> d.out.err]
             ELSE LET o == ApplyBound(Bind(f, p), pages[p].conf.props, args)
                  IN /\ heap' = heap
                     /\ log' = o.log
                     /\ result' = [ret |-> o.ret, err |-> o.err]
    /\ lastCall' = [name |-> name, this |-> p, args |-> args]
    /\ UNCHANGED <<mixins, rawConf, pageConf, merged, lists, funcs, pages>>

MergeA == MergePage("A")
MergeB == MergePage("B")
InvokeA == InvokePage("A")
InvokeB == InvokePage("B")

NextPages == MergeA \/ MergeB \/ InvokeA \/ InvokeB

SpecPages == InitPages /\ [][NextPages]_vars

----------------------------------------------------------------------------
\* What the claims speak of, read off the inputs.

IsLifecycleName(k) == Includes(PAGE_EVENT, k) /\ k # "onLoad"

Range(s) == {s[i] : i \in 1..Len(s)}

\* The callable own properties named E of the first n mixins, in list order.
RECURSIVE HandlersUpTo(_, _)
HandlersUpTo(E, n) ==
  IF n = 0 THEN <<>>
  ELSE LET h == Get(mixins[n].top, E)
       IN IF isFunction(h) THEN Append(HandlersUpTo(E, n - 1), h)
          ELSE HandlersUpTo(E, n - 1)

MixinHandlers(E) == HandlersUpTo(E, Len(mixins))

\* h1, ..., hn and then the page's own handler hp, if the page has one.
ExpectedChain(E) ==
  IF isFunction(Get(rawConf.props, E))
  THEN Append(MixinHandlers(E), rawConf.props[E])
  ELSE MixinHandlers(E)

\* No mixin holds an entry named E in its methods mapping.
NoMethodsEntry(E) == \A i \in 1..Len(mixins) : E \notin DOMAIN MethodsOf(mixins[i])

LogFns == [i \in 1..Len(log) |-> log[i].fn]

\* The last invocation was of the lifecycle property E, to which mixins
\* contribute handlers.
InvokedLifecycle(E) ==
  /\ merged
  /\ lastCall.name = E
  /\ IsLifecycleName(E)
  /\ Len(MixinHandlers(E)) >= 1

\* No handler of the chain of E throws.
NoThrower(E) == \A h \in Range(ExpectedChain(E)) : ~Throws(h)

----------------------------------------------------------------------------
\* C1: on every invocation of the merged lifecycle property E (E other than
\* onLoad), the first and every later one, the mixin handlers run in mixin
\* order h1, ..., hn and the page's own handler hp runs last.  Stated here for
\* the mixins that hold no methods entry named E.
C1_RegistrationOrder ==
  \A E \in {lastCall.name} :
    (InvokedLifecycle(E) /\ NoMethodsEntry(E) /\ NoThrower(E)) =>
      LogFns = ExpectedChain(E)

\* C2: the value an invocation of the merged lifecycle property E returns is
\* the value the last handler of the chain returned: hp's when the page has a
\* handler, the last contributing mixin's otherwise.
C2_ReturnValue ==
  \A E \in {lastCall.name} :
    (InvokedLifecycle(E) /\ NoMethodsEntry(E) /\ NoThrower(E)) =>
      result.ret = Returns(ExpectedChain(E)[Len(ExpectedChain(E))])

\* C3: after the merge, for every lifecycle name E other than onLoad that one
\* or more mixins define as a callable own property, the page property E is a
\* dispatcher over every one of those handlers and the page's own handler, and
\* an invocation of it calls every one of them, whatever the mixins' methods
\* mappings hold.
C3_NoHandlerDropped ==
  merged =>
    \A E \in UNION {DOMAIN mixins[i].top : i \in 1..Len(mixins)} :
      (IsLifecycleName(E) /\ Len(MixinHandlers(E)) >= 1) =>
        /\ Get(pageConf.props, E) = DispatcherFn(E)
        /\ E \in DOMAIN lists
        /\ Range(ExpectedChain(E)) \subseteq Range(lists[E])
        /\ (lastCall.name = E /\ NoThrower(E)) =>
             Range(ExpectedChain(E)) \subseteq Range(LogFns)

\* C4: on every invocation of a merged lifecycle dispatcher, the first handler
\* that runs receives the caller's arguments, and every handler after it
\* receives exactly one argument, the return value of the handler that ran
\* immediately before it.
C4_ArgumentThreading ==
  \A E \in {lastCall.name} :
    (merged /\ IsLifecycleName(E) /\ Get(pageConf.props, E) = DispatcherFn(E)) =>
      /\ Len(log) >= 1
      /\ log[1].args = lastCall.args
      /\ \A i \in 2..Len(log) : log[i].args = <<Returns(log[i - 1].fn)>>

\* A later invocation of a dispatcher over two mixin handlers and the page's
\* handler, called with two arguments.
C4_Witness ==
  /\ lastCall.name = "onShow"
  /\ Len(lastCall.args) = 2
  /\ Len(log) = 3
  /\ log[1].fn = Fn(0, "page", "onShow")

----------------------------------------------------------------------------
DataKeys == UNION {DOMAIN DataOf(mixins[i]) : i \in 1..Len(mixins)}
DataDefiners(k) == {i \in 1..Len(mixins) : k \in DOMAIN DataOf(mixins[i])}
Last(S) == CHOOSE i \in S : \A j \in S : j <= i
First(S) == CHOOSE i \in S : \A j \in S : i <= j

\* C5: the merged data has exactly the keys of the page's data and of every
\* mixin's data; a key the page's data holds with a value other than undefined
\* (null, 0 and false included) keeps the page's value; a key the page's data
\* does not define takes the value of the last mixin that defines it.
C5_MergedData ==
  merged =>
    LET native == NativeData(rawConf)
        final == pageConf.data
    IN /\ DOMAIN final = (DOMAIN native) \cup DataKeys
       /\ \A k \in DOMAIN native : native[k] # Undef => final[k] = native[k]
       /\ \A k \in DataKeys :
            Get(native, k) = Undef => final[k] = mixins[Last(DataDefiners(k))].data[k]

\* Two mixins define b, which the page does not; the page holds a falsy a that
\* a mixin defines too.
C5_Witness ==
  /\ merged
  /\ DataDefiners("b") = {1, 2}
  /\ "b" \notin DOMAIN NativeData(rawConf)
  /\ Get(NativeData(rawConf), "a") \in {Null, Zero, False}
  /\ DataDefiners("a") # {}

\* The page's own hook, or the no-op.
OwnHook(name) == IF isFunction(Get(rawConf.props, name)) THEN rawConf.props[name] ELSE noop
\* The page gives the hook as a function, or not at all.
HookGiven(name) == Get(rawConf.props, name) = Undef \/ isFunction(Get(rawConf.props, name))

MixinOnLoad(f) == isFunction(f) /\ f.owner >= 1 /\ f.name = "onLoad"

\* C7: a callable a mixin supplies under the name onLoad, as a top-level
\* property or as a methods entry, is never collected, is held by no property
\* of the page configuration and by no dispatcher, and no invocation of a
\* property of the page configuration calls it.
C7_MixinOnLoadIgnored ==
  /\ \A k \in DOMAIN getMixinMethods(mixins) :
       /\ ~MixinOnLoad(getMixinMethods(mixins)[k].fn)
       /\ \A f \in Range(getMixinMethods(mixins)[k].list) : ~MixinOnLoad(f)
  /\ \A k \in DOMAIN pageConf.props : ~MixinOnLoad(pageConf.props[k])
  /\ \A k \in DOMAIN lists : \A f \in Range(lists[k]) : ~MixinOnLoad(f)
  /\ \A i \in 1..Len(log) : ~MixinOnLoad(log[i].fn)

\* onLoad invoked after a merge with a mixin that has a top-level onLoad and a
\* mixin that has onLoad in its methods.
C7_Witness ==
  /\ merged
  /\ lastCall.name = "onLoad"
  /\ \E i \in 1..Len(mixins) : MixinOnLoad(Get(mixins[i].top, "onLoad"))
  /\ \E i \in 1..Len(mixins) : MixinOnLoad(Get(MethodsOf(mixins[i]), "onLoad"))

MethodNames == UNION {DOMAIN MethodsOf(mixins[i]) : i \in 1..Len(mixins)}
Definers(name) ==
  {i \in 1..Len(mixins) : isFunction(Get(MethodsOf(mixins[i]), name))}
\* The page configuration holds no value under name when mixMethods runs.
EmptySlot(name) == Get(Assigned(rawConf), name) \in {Undef, Null}

\* C8 as stated: for a method name outside the lifecycle names that the methods
\* mappings of mixins m1 and m2 both define as a callable, m1 before m2, and
\* that the page does not define, the merged property equals m2's value.
C8_LastMixinWins ==
  merged =>
    \A name \in MethodNames :
      (/\ ~Includes(PAGE_EVENT, name)
       /\ Cardinality(Definers(name)) >= 2
       /\ Get(rawConf.props, name) = Undef) =>
        Get(pageConf.props, name) = mixins[Last(Definers(name))].methods[name]

\* C8 amended: the same, for a name under which the page configuration holds
\* no value when the method merge runs (the page defined none, and the entry
\* point has not filled the slot with a default as it does for onBeforeLoad,
\* onAfterLoad and onNativeLoad); the merged property is never m1's value.
C8_LastMixinWinsEmptySlot ==
  merged =>
    \A name \in MethodNames :
      (/\ ~Includes(PAGE_EVENT, name)
       /\ Cardinality(Definers(name)) >= 2
       /\ EmptySlot(name)) =>
        /\ Get(pageConf.props, name) = mixins[Last(Definers(name))].methods[name]
        /\ \A i \in Definers(name) \ {Last(Definers(name))} :
             Get(pageConf.props, name) # mixins[i].methods[name]

\* Both mixins of the list define foo, the page does not.
C8_Witness ==
  /\ merged
  /\ Definers("foo") = {1, 2}
  /\ "foo" \notin DOMAIN rawConf.props
  /\ Get(pageConf.props, "foo") = Fn(2, "methods", "foo")

\* C9 as stated: for a method name outside the lifecycle names that the page
\* did not define, the first mixin in list order that defines it wins.  Stated
\* here for the names under which the page configuration holds no value when
\* the method merge runs.
C9_FirstMixinWins ==
  merged =>
    \A name \in MethodNames :
      (/\ ~Includes(PAGE_EVENT, name)
       /\ Definers(name) # {}
       /\ Get(rawConf.props, name) = Undef
       /\ EmptySlot(name)) =>
        Get(pageConf.props, name) = mixins[First(Definers(name))].methods[name]

\* C9 amended: for such a name, the last mixin in list order that defines it
\* wins; a later mixin defining the same name overwrites an earlier one.
C9_LastDefinerWins ==
  merged =>
    \A name \in MethodNames :
      (~Includes(PAGE_EVENT, name) /\ Definers(name) # {} /\ EmptySlot(name)) =>
        Get(pageConf.props, name) = mixins[Last(Definers(name))].methods[name]

\* bar is defined by both mixins and foo by the first one only; the page
\* defines neither.
C9_Witness ==
  /\ merged
  /\ Definers("bar") = {1, 2}
  /\ Definers("foo") = {1}
  /\ Len(mixins) = 2
  /\ "foo" \notin DOMAIN rawConf.props
  /\ Get(pageConf.props, "foo") = Fn(1, "methods", "foo")

\* C10: for a method name outside the lifecycle names that the page defines
\* (a value other than null and undefined) and one or more mixins define too,
\* the merged property is the page's own value, unchanged.
C10_PageMethodKept ==
  merged =>
    \A name \in DOMAIN rawConf.props :
      (/\ ~Includes(PAGE_EVENT, name)
       /\ rawConf.props[name] \notin {Undef, Null}
       /\ Definers(name) # {}) =>
        Get(pageConf.props, name) = rawConf.props[name]

\* The page and both mixins define foo.
C10_Witness ==
  /\ merged
  /\ Definers("foo") = {1, 2}
  /\ Get(rawConf.props, "foo") = Fn(0, "page", "foo")

----------------------------------------------------------------------------
\* C11: the engine never mutates a mixin: across the merge and across every
\* invocation of a merged property, the mixin list keeps its elements in their
\* order, and every mixin its data, its methods and its lifecycle properties.
C11_MixinsUnchanged == [][mixins' = mixins]_vars

\* A later invocation of a dispatcher merged from two mixins that both hold a
\* handler, after which the mixins are what they were.
C11_Witness ==
  /\ merged
  /\ lastCall.name = "onShow"
  /\ Len(mixins) = 2
  /\ \A i \in 1..2 : isFunction(Get(mixins[i].top, "onShow"))
  /\ Len(log) = 3
  /\ log[1].fn = Fn(0, "page", "onShow")

----------------------------------------------------------------------------
\* C12: compose of an empty list returns its argument unchanged and calls
\* nothing; compose of a one-element list is that element: the call is the
\* element's call with the same arguments; compose of [f1, ..., fN], N >= 2,
\* calls fN with the full arguments, then f(N-1) down to f1, each with the
\* return value of the element one position later as its sole argument, and
\* returns what f1 returned.
C12_Compose ==
  lastCall.name = "compose" =>
    LET N == Len(funcs)
        args == lastCall.args
    IN /\ result.err = "none"
       /\ N = 0 => /\ log = <<>>
                   /\ result.ret = IF Len(args) >= 1 THEN args[1] ELSE Undef
       /\ N = 1 => /\ log = <<CallRec(funcs[1], lastCall.this, args)>>
                   /\ result.ret = Returns(funcs[1])
       /\ N >= 2 =>
            /\ Len(log) = N
            /\ log[1] = CallRec(funcs[N], lastCall.this, args)
            /\ \A j \in 2..N :
                 /\ log[j].fn = funcs[N - j + 1]
                 /\ log[j].args = <<Returns(funcs[N - j + 2])>>
            /\ result.ret = Returns(funcs[1])

\* compose of three different functions called with two arguments.
C12_Witness ==
  /\ lastCall.name = "compose"
  /\ funcs = <<Fn(0, "funcs", "f"), noop, Fn(0, "funcs", "g")>>
  /\ Len(lastCall.args) = 2
  /\ Len(log) = 3

----------------------------------------------------------------------------
\* The positions of handler h in the chain of E.
ChainPos(E, h) == {j \in 1..Len(ExpectedChain(E)) : ExpectedChain(E)[j] = h}

\* C13: when a handler of the chain throws during an invocation of a merged
\* lifecycle dispatcher, the caller receives that error, the value the handler
\* threw, and no handler that comes after the throwing handler in the chain
\* h1, ..., hn, hp is invoked in that invocation.
C13_ErrorPropagation ==
  \A E \in {lastCall.name} :
    (InvokedLifecycle(E) /\ NoMethodsEntry(E)) =>
      \A i \in 1..Len(log) :
        Throws(log[i].fn) =>
          /\ result.err = "Error"
          /\ result.ret = Thrown(log[i].fn)
          /\ \A k \in 1..Len(log) :
               \A a \in ChainPos(E, log[i].fn), b \in ChainPos(E, log[k].fn) : b <= a

----------------------------------------------------------------------------
\* The values the mixins hold as own properties and as entries of their
\* methods mappings, and those of them that are not functions.
MixinValues ==
  UNION {{mixins[i].top[k] : k \in DOMAIN mixins[i].top}
           \cup {MethodsOf(mixins[i])[k] : k \in DOMAIN MethodsOf(mixins[i])} :
         i \in 1..Len(mixins)}
MixinNonCallables == {v \in MixinValues : ~isFunction(v)}

\* C14: a value of a mixin that is not a function, held in its methods mapping
\* or under a lifecycle name, is skipped: after the merge no page property
\* holds it, no dispatcher's handler list holds it, no invocation calls it,
\* and an invocation ends in a TypeError only on a page whose own
\* configuration holds a value that is not a function.
C14_NonCallableSkipped ==
  merged =>
    /\ {pageConf.props[k] : k \in DOMAIN pageConf.props} \cap MixinNonCallables = {}
    /\ \A E \in DOMAIN lists : \A j \in 1..Len(lists[E]) : isFunction(lists[E][j])
    /\ \A j \in 1..Len(log) : isFunction(log[j].fn)
    /\ result.err = "TypeError" =>
         \E k \in DOMAIN rawConf.props : ~isFunction(rawConf.props[k])

\* A merged onShow invoked where one mixin holds a handler and another a value
\* that is not a function under the same name.
C14_Witness ==
  /\ merged
  /\ lastCall.name = "onShow"
  /\ Len(mixins) = 2
  /\ isFunction(Get(mixins[1].top, "onShow"))
  /\ Get(mixins[2].top, "onShow") = MixinNonFn(2)
  /\ Len(log) >= 1
  /\ result.err = "none"

----------------------------------------------------------------------------
LoadHooks == {"onBeforeLoad", "onAfterLoad"}

\* C15: for every page configuration and mixin list, a mixin's onBeforeLoad
\* or onAfterLoad is never installed on the page configuration (the page's
\* slots under these names hold the page's own value or the no-op after the
\* merge) and an invocation of the merged onLoad calls no function of a mixin.
C15_MixinHooksIgnored ==
  merged =>
    /\ \A h \in LoadHooks : Get(pageConf.props, h).owner = 0
    /\ lastCall.name = "onLoad" => \A j \in 1..Len(log) : log[j].fn.owner = 0

----------------------------------------------------------------------------
\* The last invocation was of a merged lifecycle dispatcher.
InvokedDispatcher ==
  /\ merged
  /\ IsLifecycleName(lastCall.name)
  /\ Get(pageConf.props, lastCall.name) = DispatcherFn(lastCall.name)

\* C16: when a merged lifecycle dispatcher (other than onLoad) is invoked with
\* receiver R, every handler it calls, the mixins' and the page's own, runs
\* with R as its receiver, on every invocation.
C16_Receiver ==
  InvokedDispatcher => \A j \in 1..Len(log) : log[j].this = lastCall.this

\* A dispatcher over two mixin handlers and the page's own, invoked on the
\* page instance.
C16_Witness ==
  /\ InvokedDispatcher
  /\ lastCall.this = "instance"
  /\ Len(log) = 3
  /\ \E j \in 1..3 : log[j].fn.slot = "page"
  /\ \E j \in 1..3 : log[j].fn.owner = 2

----------------------------------------------------------------------------
\* The handler list the merge builds for the lifecycle name E.
ListAtMerge(E) == MergeResult(rawConf, mixins).lists[E]

\* C17: the set of handlers of a merged lifecycle dispatcher is fixed at merge
\* time: after any number of invocations the dispatcher's list holds the
\* handlers the merge put there, each once; and an invocation in which no
\* handler throws calls each of them exactly once, none twice, none omitted.
C17_HandlerSetFixed ==
  merged =>
    \A E \in DOMAIN lists :
      LET atMerge == ListAtMerge(E)
      IN /\ Len(lists[E]) = Len(atMerge)
         /\ Range(lists[E]) = Range(atMerge)
         /\ Cardinality(Range(lists[E])) = Len(lists[E])
         /\ (InvokedDispatcher /\ lastCall.name = E /\ result.err = "none") =>
              /\ Len(log) = Len(atMerge)
              /\ Range(LogFns) = Range(atMerge)

\* A later invocation (the list is back in the order of the merge after an
\* even number of calls) of a dispatcher over three handlers, none of which
\* threw.
C17_Witness ==
  /\ InvokedDispatcher
  /\ result.err = "none"
  /\ Len(log) = 3
  /\ LogFns = Reverse(ListAtMerge(lastCall.name))
  /\ lists[lastCall.name] = ListAtMerge(lastCall.name)

----------------------------------------------------------------------------
Other(p) == IF p = "A" THEN "B" ELSE "A"

\* The handler lists of the dispatchers of page p, by lifecycle name.
PageLists(p) == [key \in DOMAIN pages[p].refs |-> heap[pages[p].refs[key]]]

\* C18: two pages A and B merged with the same mixins have independent
\* dispatchers: under every interleaving of the two merges and of invocations,
\* an invocation of a lifecycle property of one page never calls the other
\* page's own handler, and it leaves the handlers of the other page's
\* dispatchers and their order as they were.
C18_PagesIndependent ==
  /\ [](\A p \in PageIds :
          lastCall.this = p => \A j \in 1..Len(log) : log[j].fn # PageHandler(Other(p)))
  /\ [][\A p \in PageIds : InvokePage(p) => PageLists(Other(p))' = PageLists(Other(p))]_vars

\* Both pages are merged with two mixin handlers each page runs before its
\* own; B was invoked an odd number of times, A an even number of times, and
\* the last invocation was A's.
C18_Witness ==
  /\ \A p \in PageIds : pages[p].merged /\ "onShow" \in DOMAIN pages[p].refs
  /\ lastCall.this = "A"
  /\ Len(log) = 3
  /\ PageLists("A")["onShow"] = MergeResult(pages["A"].raw, mixins).lists["onShow"]
  /\ PageLists("B")["onShow"] = Reverse(MergeResult(pages["B"].raw, mixins).lists["onShow"])
  /\ Len(PageLists("B")["onShow"]) = 3

====
